---- MODULE Spec2Model ----
(***************************************************************************)
(* Model of app.py (pyrogn/hw-weather): one run of main(), the Streamlit   *)
(* script that renders the historical anomalies of a selected city and     *)
(* classifies the live temperature against the seasonal statistics.        *)
(*                                                                         *)
(* Numbers.  Temperatures are integers.  A mean is the exact rational      *)
(* num/den; a standard deviation is kept as its exact square sqNum/sqDen   *)
(* (or NaN), and every comparison against mean -/+ 2*std is decided by     *)
(* exact integer cross-multiplication.  Floating-point rounding is not     *)
(* modelled.  Uploaded files have at least one row.                        *)
(***************************************************************************)
EXTENDS Integers, Sequences, FiniteSets, TLC

(* ---------------- bounds and input alphabets ---------------- *)

\* longest uploaded dataset of the full run (Spec)
MaxRows == 3
\* longest uploaded dataset of the history-only run (SpecHist)
MaxObs == 7

Cities == {"A", "B"}
\* season labels occurring in the uploaded file (the file need not cover all)
DataSeasons == {"winter", "summer"}
\* temperatures of the history column in Spec / in SpecHist
Temps == {0, 1, 2}
HistTemps == {0, 1, 3}
\* temperatures the weather endpoint may report
LiveTemps == {-1, 1, 3, 4}
Months == 1..12

CityIdx(c) == IF c = "A" THEN 0 ELSE 1
SeasonIdx(s) == IF s = "winter" THEN 0 ELSE 1

\* rows of the CSV: columns city, season, temperature (timestamp is only plotted)
Rows(temps) == [city : Cities, season : DataSeasons, temperature : temps]

Key(o) == CityIdx(o.city) * 100 + SeasonIdx(o.season) * 10 + o.temperature

(* ---------------- pandas: selection, groupby, mean, std ---------------- *)

RECURSIVE Sum(_)
Sum(xs) == IF xs = << >> THEN 0 ELSE Head(xs) + Sum(Tail(xs))

RECURSIVE SumSq(_)
SumSq(xs) == IF xs = << >> THEN 0 ELSE Head(xs) * Head(xs) + SumSq(Tail(xs))

\* df[df["city"] == selected_city]
CityData(d, city) == SelectSeq(d, LAMBDA o : o.city = city)

\* sorted(df["city"].unique())
CitiesOf(d) == {d[i].city : i \in 1..Len(d)}

\* the temperatures of one group of city_data.groupby("season")
RECURSIVE GroupTemps(_, _)
GroupTemps(cd, s) ==
    IF cd = << >> THEN << >>
    ELSE IF Head(cd).season = s
         THEN << Head(cd).temperature >> \o GroupTemps(Tail(cd), s)
         ELSE GroupTemps(Tail(cd), s)

\* the group keys of city_data.groupby("season")
SeasonsOf(cd) == {cd[i].season : i \in 1..Len(cd)}

\* agg "mean": the exact rational Sum/Len
Mean(xs) == [num |-> Sum(xs), den |-> Len(xs)]

NaN == [nan |-> TRUE, sqNum |-> 0, sqDen |-> 1]

\* variant: population standard deviation (ddof = 0), 0 for a single value
Std_Population(xs) ==
    LET n == Len(xs)
    IN  [nan |-> FALSE,
         sqNum |-> n * SumSq(xs) - Sum(xs) * Sum(xs),
         sqDen |-> n * n]

\* agg "std": sample standard deviation (ddof = 1), NaN for a single value;
\* std^2 = (n*SumSq - Sum^2) / (n*(n-1))
Std(xs) ==
    LET n == Len(xs)
    IN  IF n < 2 THEN NaN
        ELSE [nan |-> FALSE,
              sqNum |-> n * SumSq(xs) - Sum(xs) * Sum(xs),
              sqDen |-> n * (n - 1)]

\* t < mean - 2*std ; false when std is NaN
LtLower(t, mean, std) ==
    /\ ~std.nan
    /\ mean.num - t * mean.den > 0
    /\ (mean.num - t * mean.den) * (mean.num - t * mean.den) * std.sqDen
          > 4 * std.sqNum * mean.den * mean.den

\* variant: t >= mean + 2*std
GtUpper_NonStrict(t, mean, std) ==
    /\ ~std.nan
    /\ t * mean.den - mean.num >= 0
    /\ (t * mean.den - mean.num) * (t * mean.den - mean.num) * std.sqDen
          >= 4 * std.sqNum * mean.den * mean.den

\* t > mean + 2*std ; false when std is NaN
GtUpper(t, mean, std) ==
    /\ ~std.nan
    /\ t * mean.den - mean.num > 0
    /\ (t * mean.den - mean.num) * (t * mean.den - mean.num) * std.sqDen
          > 4 * std.sqNum * mean.den * mean.den

\* mean - 2*std <= t ; false when std is NaN
LeLower(t, mean, std) ==
    /\ ~std.nan
    /\ \/ mean.num - t * mean.den <= 0
       \/ (mean.num - t * mean.den) * (mean.num - t * mean.den) * std.sqDen
             <= 4 * std.sqNum * mean.den * mean.den

\* variant: t < mean + 2*std
LeUpper_Strict(t, mean, std) ==
    /\ ~std.nan
    /\ \/ t * mean.den - mean.num < 0
       \/ (t * mean.den - mean.num) * (t * mean.den - mean.num) * std.sqDen
             < 4 * std.sqNum * mean.den * mean.den

\* t <= mean + 2*std ; false when std is NaN
LeUpper(t, mean, std) ==
    /\ ~std.nan
    /\ \/ t * mean.den - mean.num <= 0
       \/ (t * mean.den - mean.num) * (t * mean.den - mean.num) * std.sqDen
             <= 4 * std.sqNum * mean.den * mean.den

\* city_data.groupby("season")["temperature"].agg(["mean","std"]).reset_index()
CityStats(cd) ==
    [s \in SeasonsOf(cd) |->
        [mean |-> Mean(GroupTemps(cd, s)), std |-> Std(GroupTemps(cd, s))]]

\* groupby("season")["temperature"].transform("mean") / transform("std")
TransformMean(cd) == [i \in 1..Len(cd) |-> Mean(GroupTemps(cd, cd[i].season))]
TransformStd(cd) == [i \in 1..Len(cd) |-> Std(GroupTemps(cd, cd[i].season))]

\* variant: mean and std taken over all of city_data, without the groupby
Anomalies_Ungrouped(cd) ==
    LET all == [i \in 1..Len(cd) |-> cd[i].temperature]
    IN  [i \in 1..Len(cd) |->
            \/ LtLower(cd[i].temperature, Mean(all), Std(all))
            \/ GtUpper(cd[i].temperature, Mean(all), Std(all))]

\* anomalies = (temperature < mean - 2*std) | (temperature > mean + 2*std)
Anomalies(cd) ==
    LET mean == TransformMean(cd)
        std == TransformStd(cd)
    IN  [i \in 1..Len(cd) |->
            \/ LtLower(cd[i].temperature, mean[i], std[i])
            \/ GtUpper(cd[i].temperature, mean[i], std[i])]

(* ---------------- season of the clock ---------------- *)

\* variant: December left out of the winter list
get_current_season_NoDecember(m) ==
    IF m \in {1, 2} THEN "winter"
    ELSE IF m \in {3, 4, 5} THEN "spring"
    ELSE IF m \in {6, 7, 8} THEN "summer"
    ELSE "fall"

get_current_season(m) ==
    IF m \in {12, 1, 2} THEN "winter"
    ELSE IF m \in {3, 4, 5} THEN "spring"
    ELSE IF m \in {6, 7, 8} THEN "summer"
    ELSE "fall"

(* ---------------- the weather endpoint ---------------- *)

\* shapes of a response body: not JSON at all, {}, {"main": {}},
\* {"main": {"temp": null}}, {"main": {"temp": "abc"}},
\* {"main": {"temp": true}}, {"main": {"temp": <number>}}
BodyShapes == {"notjson", "nomain", "notemp", "null", "str", "true"}

Bodies == [shape : BodyShapes, temp : {0}] \cup [shape : {"num"}, temp : LiveTemps]

\* net = FALSE: the request itself fails (no response at all)
Responses ==
    [net : {TRUE}, status : {200, 401}, body : Bodies]
        \cup {[net |-> FALSE, status |-> 0, body |-> [shape |-> "notjson", temp |-> 0]]}

NoResponse == [net |-> FALSE, status |-> -1, body |-> [shape |-> "notjson", temp |-> 0]]

\* values of current_temp
Unset == [kind |-> "unset", val |-> 0]
None == [kind |-> "None", val |-> 0]

\* data["main"]["temp"] for a body that has the key
TempOf(body) ==
    IF body.shape = "null" THEN None
    ELSE IF body.shape = "str" THEN [kind |-> "str", val |-> 0]
    ELSE IF body.shape = "true" THEN [kind |-> "bool", val |-> 1]
    ELSE [kind |-> "num", val |-> body.temp]

\* outcome of a fetch: an exception raised (raised # ""), or what st.error
\* displayed inside the function and the value returned
Raise(cause) == [raised |-> cause, errors |-> << >>, ret |-> Unset]
Return(errs, v) == [raised |-> "", errors |-> errs, ret |-> v]

Payload(r) == [kind |-> "payload", detail |-> r.body.shape]
Caught(cause) == [kind |-> "exception", detail |-> cause]

get_weather_sync(r) ==
    IF ~r.net THEN Raise("ConnectionError")
    ELSE IF r.body.shape = "notjson" THEN Raise("JSONDecodeError")
    ELSE IF r.status # 200 THEN Return(<< Payload(r) >>, None)
    ELSE IF r.body.shape = "nomain" THEN Raise("KeyError main")
    ELSE IF r.body.shape = "notemp" THEN Raise("KeyError temp")
    ELSE Return(<< >>, TempOf(r.body))

\* variant: the status is not checked before the body is read
get_weather_async_NoStatusCheck(r) ==
    IF ~r.net THEN Raise("ConnectionError")
    ELSE IF r.body.shape = "notjson" THEN Raise("JSONDecodeError")
    ELSE IF r.body.shape \in {"nomain", "notemp"}
         THEN Raise(IF r.body.shape = "nomain" THEN "KeyError main" ELSE "KeyError temp")
    ELSE Return(<< >>, TempOf(r.body))

get_weather_async(r) ==
    IF ~r.net THEN Raise("ConnectionError")
    ELSE IF r.body.shape = "notjson" THEN Raise("JSONDecodeError")
    ELSE IF r.status # 200 THEN Return(<< Payload(r) >>, None)
    ELSE IF r.body.shape \in {"nomain", "notemp"}
         THEN Raise(IF r.body.shape = "nomain" THEN "KeyError main" ELSE "KeyError temp")
    ELSE Return(<< >>, TempOf(r.body))

(* ---------------- live classification ---------------- *)

\* city_stats[city_stats["season"] == season] has a row
HasBaseline(stats, s) == s \in DOMAIN stats

\* variant: a missing season is classified as normal instead of raising
check_temperature_normality_Default(temp, stats, m) ==
    LET s == get_current_season(m)
    IN  IF HasBaseline(stats, s)
        THEN [raised |-> "", season |-> s,
              is_normal |-> /\ LeLower(temp, stats[s].mean, stats[s].std)
                            /\ LeUpper(temp, stats[s].mean, stats[s].std)]
        ELSE [raised |-> "", season |-> s, is_normal |-> TRUE]

\* season = get_current_season(); stats = ....iloc[0] (IndexError when the
\* selection is empty); is_normal = (mean - 2*std) <= temp <= (mean + 2*std)
check_temperature_normality(temp, stats, m) ==
    LET s == get_current_season(m)
    IN  IF HasBaseline(stats, s)
        THEN [raised |-> "", season |-> s,
              is_normal |-> /\ LeLower(temp, stats[s].mean, stats[s].std)
                            /\ LeUpper(temp, stats[s].mean, stats[s].std)]
        ELSE [raised |-> "IndexError", season |-> s, is_normal |-> FALSE]

\* variant: the key is not tested
KeySupplied_Always(k) == TRUE

\* if api_key:
KeySupplied(k) == k # ""

(* ---------------- state ---------------- *)

VARIABLES
    uploaded,       \* uploaded_file is not None
    df,             \* load_data(uploaded_file)
    api_key,        \* the text input
    use_async,      \* the checkbox
    pc,             \* position in main()
    selected_city,
    city_stats,
    anomalies,      \* the boolean column over city_data
    response,       \* what the endpoint answered to the one request
    fetches,        \* requests sent
    current_temp,
    month,          \* datetime.now().month as read by get_current_season, 0 = not read
    season,         \* "none" until get_current_season ran
    is_normal,      \* "unset", "true", "false"
    errors,         \* st.error calls, in order
    info,           \* st.info shown
    temp_shown,     \* "Текущая температура в ..." written
    status_shown    \* "none", "normal" (нормальная), "anomalous" (аномальная)

vars == << uploaded, df, api_key, use_async, pc, selected_city, city_stats,
           anomalies, response, fetches, current_temp, month, season,
           is_normal, errors, info, temp_shown, status_shown >>

InitRest ==
    /\ pc = "start"
    /\ selected_city = ""
    /\ city_stats = << >>
    /\ anomalies = << >>
    /\ response = NoResponse
    /\ fetches = 0
    /\ current_temp = Unset
    /\ month = 0
    /\ season = "none"
    /\ is_normal = "unset"
    /\ errors = << >>
    /\ info = FALSE
    /\ temp_shown = FALSE
    /\ status_shown = "none"

\* the sidebar widgets of any run; the uploaded file has not been read yet
Init ==
    /\ uploaded \in BOOLEAN
    /\ df = << >>
    /\ api_key \in {"", "key"}
    /\ use_async \in BOOLEAN
    /\ InitRest

\* runs with an uploaded file and no API key
InitHist ==
    /\ uploaded = TRUE
    /\ df = << >>
    /\ api_key = ""
    /\ use_async = TRUE
    /\ InitRest

(* ---------------- main() ---------------- *)

\* df = load_data(uploaded_file): pd.read_csv reads one more row of the
\* file.  Files have at most maxLen rows and are enumerated up to the order
\* of their rows (rows come sorted by city, season, temperature).
LoadRow(maxLen, temps) ==
    /\ pc = "start"
    /\ uploaded
    /\ Len(df) < maxLen
    /\ \E o \in Rows(temps) :
          /\ IF df = << >> THEN TRUE ELSE Key(df[Len(df)]) <= Key(o)
          /\ df' = Append(df, o)
    /\ UNCHANGED << uploaded, api_key, use_async, pc, selected_city, city_stats,
                    anomalies, response, fetches, current_temp, month, season,
                    is_normal, errors, info, temp_shown, status_shown >>

\* if uploaded_file is not None: ... (nothing is shown otherwise)
NoUpload ==
    /\ pc = "start"
    /\ ~uploaded
    /\ pc' = "done"
    /\ UNCHANGED << uploaded, df, api_key, use_async, selected_city, city_stats,
                    anomalies, response, fetches, current_temp, month, season,
                    is_normal, errors, info, temp_shown, status_shown >>

\* the file is read (it has at least one row): city selection, seasonal
\* statistics, anomaly column and the two charts
RenderHistory ==
    /\ pc = "start"
    /\ uploaded
    /\ df # << >>
    /\ \E c \in CitiesOf(df) :
          /\ selected_city' = c
          /\ city_stats' = CityStats(CityData(df, c))
          /\ anomalies' = Anomalies(CityData(df, c))
    /\ pc' = "weather"
    /\ UNCHANGED << uploaded, df, api_key, use_async, response, fetches,
                    current_temp, month, season, is_normal, errors, info,
                    temp_shown, status_shown >>

\* else: st.info(...)
ShowInfo ==
    /\ pc = "weather"
    /\ ~KeySupplied(api_key)
    /\ info' = TRUE
    /\ pc' = "done"
    /\ UNCHANGED << uploaded, df, api_key, use_async, selected_city, city_stats,
                    anomalies, response, fetches, current_temp, month, season,
                    is_normal, errors, temp_shown, status_shown >>

\* the one request of the run and what main() does with its outcome
Fetched(r, out) ==
    /\ response' = r
    /\ fetches' = fetches + 1
    /\ IF out.raised # ""
       THEN /\ errors' = errors \o out.errors \o << Caught(out.raised) >>
            /\ current_temp' = current_temp
            /\ pc' = "done"
       ELSE /\ errors' = errors \o out.errors
            /\ current_temp' = out.ret
            /\ pc' = "fetched"
    /\ UNCHANGED << uploaded, df, api_key, use_async, selected_city, city_stats,
                    anomalies, month, season, is_normal, info, temp_shown,
                    status_shown >>

\* current_temp = asyncio.run(get_weather_async(selected_city, api_key))
FetchAsync ==
    /\ pc = "weather"
    /\ KeySupplied(api_key)
    /\ use_async
    /\ \E r \in Responses : Fetched(r, get_weather_async(r))

\* current_temp = get_weather_sync(selected_city, api_key)
FetchSync ==
    /\ pc = "weather"
    /\ KeySupplied(api_key)
    /\ ~use_async
    /\ \E r \in Responses : Fetched(r, get_weather_sync(r))

\* if current_temp is not None: (false) -- the run ends
SkipClassify ==
    /\ pc = "fetched"
    /\ current_temp = None
    /\ pc' = "done"
    /\ UNCHANGED << uploaded, df, api_key, use_async, selected_city, city_stats,
                    anomalies, response, fetches, current_temp, month, season,
                    is_normal, errors, info, temp_shown, status_shown >>

\* f"{current_temp:.1f}" of a string raises ValueError, caught by except
FormatError ==
    /\ pc = "fetched"
    /\ current_temp.kind = "str"
    /\ errors' = Append(errors, Caught("ValueError"))
    /\ pc' = "done"
    /\ UNCHANGED << uploaded, df, api_key, use_async, selected_city, city_stats,
                    anomalies, response, fetches, current_temp, month, season,
                    is_normal, info, temp_shown, status_shown >>

\* the temperature is written, then check_temperature_normality and the status
Classify ==
    /\ pc = "fetched"
    /\ current_temp.kind \in {"num", "bool"}
    /\ temp_shown' = TRUE
    /\ \E m \in Months :
          LET out == check_temperature_normality(current_temp.val, city_stats, m)
          IN  /\ month' = m
              /\ season' = out.season
              /\ IF out.raised = ""
                 THEN /\ is_normal' = IF out.is_normal THEN "true" ELSE "false"
                      /\ status_shown' = IF out.is_normal THEN "normal" ELSE "anomalous"
                      /\ errors' = errors
                 ELSE /\ errors' = Append(errors, Caught(out.raised))
                      /\ UNCHANGED << is_normal, status_shown >>
    /\ pc' = "done"
    /\ UNCHANGED << uploaded, df, api_key, use_async, selected_city, city_stats,
                    anomalies, response, fetches, current_temp, info >>

Next ==
    \/ LoadRow(MaxRows, Temps)
    \/ NoUpload
    \/ RenderHistory
    \/ ShowInfo
    \/ FetchAsync
    \/ FetchSync
    \/ SkipClassify
    \/ FormatError
    \/ Classify

Spec == Init /\ [][Next]_vars

NextHist ==
    \/ LoadRow(MaxObs, HistTemps)
    \/ RenderHistory
    \/ ShowInfo

SpecHist == InitHist /\ [][NextHist]_vars

(* ---------------- properties ---------------- *)

\* The statistics below are recomputed directly from the rows of df, by row
\* index, without the pandas operators above.

\* rows of df of the selected city that carry season label s
GroupOf(s) == {j \in 1..Len(df) : df[j].city = selected_city /\ df[j].season = s}

RECURSIVE TempSum(_)
TempSum(J) ==
    IF J = {} THEN 0
    ELSE LET j == CHOOSE k \in J : TRUE
         IN  df[j].temperature + TempSum(J \ {j})

\* sum over J of (n*x_j - S)^2 = n^2 * (n-1) * (sample variance)
RECURSIVE DevSqSum(_, _, _)
DevSqSum(J, n, S) ==
    IF J = {} THEN 0
    ELSE LET j == CHOOSE k \in J : TRUE
         IN  (n * df[j].temperature - S) * (n * df[j].temperature - S)
                + DevSqSum(J \ {j}, n, S)

\* (n-1) * (n*t - S)^2, i.e. n^2 * (n-1) * (t - mean)^2
DevOf(t, J) ==
    (Cardinality(J) - 1) * (Cardinality(J) * t - TempSum(J))
                         * (Cardinality(J) * t - TempSum(J))

FourVar(J) == 4 * DevSqSum(J, Cardinality(J), TempSum(J))

\* |t - mean| > 2*std over the rows J, std defined
Outside(t, J) == Cardinality(J) >= 2 /\ DevOf(t, J) > FourVar(J)

\* |t - mean| <= 2*std over the rows J, std defined
Within(t, J) == Cardinality(J) >= 2 /\ DevOf(t, J) <= FourVar(J)

\* rows of df of the selected city, and the position of row j in city_data
CityRows == {j \in 1..Len(df) : df[j].city = selected_city}
PosOf(j) == Cardinality({k \in 1..j : df[k].city = selected_city})

Rendered == pc # "start" /\ uploaded

\* C1: every observation of the selected city is flagged exactly when its
\* temperature is strictly outside mean -/+ 2*std of the observations of
\* that city with the same season label.
C1_TwoSigmaFlag ==
    Rendered =>
        /\ DOMAIN anomalies = 1..Cardinality(CityRows)
        /\ \A j \in CityRows :
              anomalies[PosOf(j)] <=> Outside(df[j].temperature, GroupOf(df[j].season))

\* a flagged observation, with a second season among the city's rows
C1_Witness ==
    /\ Rendered
    /\ \E j \in CityRows :
          /\ anomalies[PosOf(j)]
          /\ GroupOf(df[j].season) # CityRows

\* C2: the only observation of its season has a NaN std and is not flagged,
\* and rendering the history raises no error.
C2_SingleObservation ==
    Rendered =>
        \A j \in CityRows :
            Cardinality(GroupOf(df[j].season)) = 1 =>
                /\ city_stats[df[j].season].std.nan
                /\ ~anomalies[PosOf(j)]
                /\ (pc = "weather" => errors = << >>)

\* a city with a one-observation season next to a larger season
C2_Witness ==
    /\ pc = "weather"
    /\ \E j \in CityRows : Cardinality(GroupOf(df[j].season)) = 1
    /\ \E j \in CityRows : Cardinality(GroupOf(df[j].season)) >= 2

Classified == pc = "done" /\ season # "none" /\ GroupOf(season) # {}

\* C3: with a defined std for the current season, is_normal is true exactly
\* when mean - 2*std <= temperature <= mean + 2*std (bounds included).
C3_InclusiveBounds ==
    (Classified /\ Cardinality(GroupOf(season)) >= 2) =>
        /\ is_normal \in {"true", "false"}
        /\ is_normal = "true" <=> Within(current_temp.val, GroupOf(season))
        /\ status_shown = (IF is_normal = "true" THEN "normal" ELSE "anomalous")

\* a temperature exactly on a bound of a season with std > 0, shown as normal
C3_Witness ==
    /\ Classified
    /\ Cardinality(GroupOf(season)) >= 2
    /\ FourVar(GroupOf(season)) > 0
    /\ DevOf(current_temp.val, GroupOf(season)) = FourVar(GroupOf(season))
    /\ status_shown = "normal"

\* C4: without a historical observation of the current season the run ends
\* with an error reported and no classification produced or displayed.
C4_NoBaselineIsError ==
    (season # "none" /\ GroupOf(season) = {}) =>
        /\ pc = "done"
        /\ errors # << >>
        /\ errors[Len(errors)].kind = "exception"
        /\ is_normal = "unset"
        /\ status_shown = "none"

C4_Witness ==
    /\ pc = "done"
    /\ season = "spring"
    /\ GroupOf(season) = {}
    /\ current_temp.kind = "num"

\* C5: with a NaN std for the current season the classification is
\* indeterminate, neither normal nor anomalous.
C5_NaNIsIndeterminate ==
    (Classified /\ Cardinality(GroupOf(season)) = 1) =>
        /\ is_normal \notin {"true", "false"}
        /\ status_shown \notin {"normal", "anomalous"}

SeasonTable ==
    << "winter", "winter", "spring", "spring", "spring", "summer",
       "summer", "summer", "fall", "fall", "fall", "winter" >>

\* C6: the season used for the live classification is the one the fixed
\* month table gives for the clock's month, for every month 1..12.
C6_SeasonOfMonth ==
    /\ \A m \in 1..12 : get_current_season(m) = SeasonTable[m]
    /\ season # "none" =>
          /\ month \in 1..12
          /\ season = SeasonTable[month]
          /\ (GroupOf(season) # {} <=> status_shown # "none")

C6_Witness ==
    /\ pc = "done"
    /\ month = 12
    /\ season = "winter"
    /\ status_shown # "none"

FetchFailed ==
    /\ fetches > 0
    /\ response.net
    /\ response.status # 200 \/ response.body.shape # "num"

\* C7: a failed fetch (non-success status, or a body without a numeric
\* temperature) is reported, and neither a temperature nor a classification
\* is shown afterwards.
C7_FetchFailureReported ==
    (pc = "done" /\ FetchFailed) =>
        /\ errors # << >>
        /\ ~temp_shown
        /\ season = "none"
        /\ status_shown = "none"

OtherStrategy ==
    IF use_async THEN get_weather_sync(response) ELSE get_weather_async(response)

C10_SmallSeasonNeverFlagged ==
    Rendered =>
        \A j \in CityRows :
            anomalies[PosOf(j)] => Cardinality(GroupOf(df[j].season)) >= 6

\* a flag in a season of exactly 6 observations
C10_Witness ==
    /\ Rendered
    /\ \E j \in CityRows :
          /\ anomalies[PosOf(j)]
          /\ Cardinality(GroupOf(df[j].season)) = 6

====
